---- MODULE Spec2Model ----
(***************************************************************************)
(* A model of process_release_data.py: the upload and download             *)
(* reconciliation passes over one release of a remote asset store, the     *)
(* index codec, the date conversions and the local-name disambiguation.    *)
(*                                                                         *)
(* Text is modelled by TLA+ strings, which TLC treats as sequences of      *)
(* characters (Len, Head, Tail, SubSeq, \o).  An index record is, as in    *)
(* the source, a list of fields: <<checksum, filename, filedate>>.         *)
(***************************************************************************)
EXTENDS Integers, Sequences, FiniteSets, TLC

\* ------------------------------------------------------------------------
\* Program constants (lines 31-36)
COLUMN_CHECKSUM == 0
COLUMN_FILENAME == 1
COLUMN_FILEDATE == 2
COLUMN_LOCAL_FILENAME == 3
DEFAULT_FILE_DATE_UTC_STRING == "2020-01-01T12:00:00.0Z"

\* The k-th field (0-based, as in the source) of a record.
Field(item, k) == item[k + 1]

\* ------------------------------------------------------------------------
\* Python str primitives the program relies on

Digits == "0123456789"
UpperCase == "ABCDEFGHIJKLMNOPQRSTUVWXYZ"
LowerCase == "abcdefghijklmnopqrstuvwxyz"

CharAt(s, i) == SubSeq(s, i, i)

\* The position of each character of a table in it.
PositionsIn(table) ==
    [ch \in {CharAt(table, i) : i \in 1..Len(table)} |->
        CHOOSE i \in 1..Len(table) : CharAt(table, i) = ch]
DigitPos == PositionsIn(Digits)
UpperPos == PositionsIn(UpperCase)
LowerPos == PositionsIn(LowerCase)

\* Code point of a character (the characters index text is made of).
Ord(ch) ==
    CASE ch \in DOMAIN DigitPos -> 47 + DigitPos[ch]
      [] ch \in DOMAIN UpperPos -> 64 + UpperPos[ch]
      [] ch \in DOMAIN LowerPos -> 96 + LowerPos[ch]
      [] ch = " " -> 32
      [] ch = "+" -> 43
      [] ch = "-" -> 45
      [] ch = "." -> 46
      [] ch = ":" -> 58
      [] ch = ";" -> 59
      [] ch = "_" -> 95

IsDigit(ch) == ch \in DOMAIN DigitPos
DigitValue(ch) == DigitPos[ch] - 1

\* str < str: lexicographic by code point.
RECURSIVE StrLess(_, _)
StrLess(a, b) ==
    IF b = "" THEN FALSE
    ELSE IF a = "" THEN TRUE
    ELSE IF Head(a) = Head(b) THEN StrLess(Tail(a), Tail(b))
    ELSE Ord(Head(a)) < Ord(Head(b))

\* str.casefold() on ASCII text: upper-case letters become lower-case.
RECURSIVE casefold(_)
casefold(s) ==
    IF s = "" THEN ""
    ELSE (IF Head(s) \in DOMAIN UpperPos
          THEN CharAt(LowerCase, UpperPos[Head(s)])
          ELSE Head(s)) \o casefold(Tail(s))

\* str.startswith(prefix)
startswith(s, prefix) ==
    Len(s) >= Len(prefix) /\ SubSeq(s, 1, Len(prefix)) = prefix

\* str.rstrip(): trailing whitespace (here blank and newline) removed.
RECURSIVE rstrip(_)
rstrip(s) ==
    IF s = "" THEN ""
    ELSE IF CharAt(s, Len(s)) \in {" ", "\n"} THEN rstrip(SubSeq(s, 1, Len(s) - 1))
    ELSE s

\* str.find(ch, i): the first position of ch in s from position i on, past the
\* end of s when there is none.
RECURSIVE Find(_, _, _)
Find(s, ch, i) ==
    IF i > Len(s) THEN i
    ELSE IF CharAt(s, i) = ch THEN i
    ELSE Find(s, ch, i + 1)

\* str.split(sep) for a one-character separator: always at least one field.
RECURSIVE split(_, _)
split(s, sep) ==
    LET k == Find(s, sep, 1)
    IN IF k > Len(s) THEN <<s>>
       ELSE <<SubSeq(s, 1, k - 1)>> \o split(SubSeq(s, k + 1, Len(s)), sep)

\* sep.join(fields)
RECURSIVE join(_, _)
join(sep, fields) ==
    IF Len(fields) = 0 THEN ""
    ELSE IF Len(fields) = 1 THEN fields[1]
    ELSE fields[1] \o sep \o join(sep, Tail(fields))

\* Iterating a text file: the lines, each keeping its terminating newline.
RECURSIVE Lines(_)
Lines(text) ==
    IF text = "" THEN <<>>
    ELSE LET k == Find(text, "\n", 1)
         IN IF k > Len(text) THEN <<text>>
            ELSE <<SubSeq(text, 1, k)>> \o Lines(SubSeq(text, k + 1, Len(text)))

\* ------------------------------------------------------------------------
\* Dates.  A file modification time is [sec, us]: whole seconds since the
\* epoch and microseconds; a datetime is the broken-down UTC date.

\* datetime.utcfromtimestamp(t): civil date of a day count, then time of day.
utcfromtimestamp(t) ==
    LET days == t.sec \div 86400
        sod == t.sec % 86400
        z == days + 719468
        era == z \div 146097
        doe == z - era * 146097
        yoe == (doe - doe \div 1460 + doe \div 36524 - doe \div 146096) \div 365
        doy == doe - (365 * yoe + yoe \div 4 - yoe \div 100)
        mp == (5 * doy + 2) \div 153
        d == doy - (153 * mp + 2) \div 5 + 1
        m == IF mp < 10 THEN mp + 3 ELSE mp - 9
        y == yoe + era * 400 + (IF m <= 2 THEN 1 ELSE 0)
    IN [year |-> y, month |-> m, day |-> d, hour |-> sod \div 3600,
        minute |-> (sod % 3600) \div 60, second |-> sod % 60,
        microsecond |-> t.us]

\* datetime.timestamp() of a UTC datetime: the inverse day count.
timestamp(dt) ==
    LET y == dt.year - (IF dt.month <= 2 THEN 1 ELSE 0)
        era == y \div 400
        yoe == y - era * 400
        mp == IF dt.month > 2 THEN dt.month - 3 ELSE dt.month + 9
        doy == (153 * mp + 2) \div 5 + dt.day - 1
        doe == yoe * 365 + yoe \div 4 - yoe \div 100 + doy
        days == era * 146097 + doe - 719468
    IN [sec |-> days * 86400 + dt.hour * 3600 + dt.minute * 60 + dt.second,
        us |-> dt.microsecond]

\* get_filedate(filepath): the file's mtime as a UTC datetime.
get_filedate(file) == utcfromtimestamp(file.mtime)

\* "%0<w>d" % n
RECURSIVE Pad(_, _)
Pad(n, w) ==
    IF w = 0 THEN "" ELSE Pad(n \div 10, w - 1) \o CharAt(Digits, (n % 10) + 1)

\* date_to_utc_string(filedate): datetime.isoformat() of an aware UTC datetime;
\* the fraction is written only when the microsecond is not 0.
date_to_utc_string(dt) ==
    Pad(dt.year, 4) \o "-" \o Pad(dt.month, 2) \o "-" \o Pad(dt.day, 2) \o "T"
    \o Pad(dt.hour, 2) \o ":" \o Pad(dt.minute, 2) \o ":" \o Pad(dt.second, 2)
    \o (IF dt.microsecond # 0 THEN "." \o Pad(dt.microsecond, 6) ELSE "")
    \o "+00:00"

\* strptime scanning state: the text left, whether the scan still matches,
\* the numbers read and how many digits each had.
ScanStart(s) == [rest |-> s, ok |-> TRUE, vals |-> <<>>, ndig |-> <<>>]

\* A literal of the format.
Eat(st, lit) ==
    IF st.ok /\ startswith(st.rest, lit)
    THEN [st EXCEPT !.rest = SubSeq(st.rest, Len(lit) + 1, Len(st.rest))]
    ELSE [st EXCEPT !.ok = FALSE]

RECURSIVE TakeDigits(_, _)
TakeDigits(s, n) ==
    IF n = 0 \/ s = "" THEN ""
    ELSE IF ~IsDigit(Head(s)) THEN ""
    ELSE Head(s) \o TakeDigits(Tail(s), n - 1)

RECURSIVE Number(_)
Number(ds) ==
    IF ds = "" THEN 0
    ELSE 10 * Number(SubSeq(ds, 1, Len(ds) - 1)) + DigitValue(CharAt(ds, Len(ds)))

\* A numeric directive of lo..hi digits (%Y: 4..4, %m %d %H %M %S: 1..2,
\* %f: 1..6), taken greedily.
Num(st, lo, hi) ==
    LET ds == TakeDigits(st.rest, hi)
    IN IF st.ok /\ Len(ds) >= lo
       THEN [rest |-> SubSeq(st.rest, Len(ds) + 1, Len(st.rest)), ok |-> TRUE,
             vals |-> Append(st.vals, Number(ds)), ndig |-> Append(st.ndig, Len(ds))]
       ELSE [st EXCEPT !.ok = FALSE]

RECURSIVE Pow10(_)
Pow10(n) == IF n = 0 THEN 1 ELSE 10 * Pow10(n - 1)

DaysInMonth(y, m) ==
    IF m = 2 THEN (IF (y % 4 = 0 /\ y % 100 # 0) \/ y % 400 = 0 THEN 29 ELSE 28)
    ELSE IF m \in {4, 6, 9, 11} THEN 30 ELSE 31

\* datetime.strptime(s, "%Y-%m-%dT%H:%M:%S.%f" + suffix): [ok, date]; ok is
\* FALSE where Python raises ValueError.
strptime(s, suffix) ==
    LET s1 == Num(ScanStart(s), 4, 4)
        s2 == Num(Eat(s1, "-"), 1, 2)
        s3 == Num(Eat(s2, "-"), 1, 2)
        s4 == Num(Eat(s3, "T"), 1, 2)
        s5 == Num(Eat(s4, ":"), 1, 2)
        s6 == Num(Eat(s5, ":"), 1, 2)
        s7 == Num(Eat(s6, "."), 1, 6)
        s8 == Eat(s7, suffix)
        v == s8.vals
        good == /\ s8.ok
                /\ s8.rest = ""
                /\ v[1] >= 1
                /\ v[2] \in 1..12
                /\ v[3] \in 1..DaysInMonth(v[1], v[2])
                /\ v[4] \in 0..23
                /\ v[5] \in 0..59
                /\ v[6] \in 0..59
    IN IF good
       THEN [ok |-> TRUE,
             date |-> [year |-> v[1], month |-> v[2], day |-> v[3], hour |-> v[4],
                       minute |-> v[5], second |-> v[6],
                       microsecond |-> v[7] * Pow10(6 - s8.ndig[7])]]
       ELSE [ok |-> FALSE,
             date |-> [year |-> 0, month |-> 0, day |-> 0, hour |-> 0,
                       minute |-> 0, second |-> 0, microsecond |-> 0]]

\* date_from_utc_string(s): the "+00:00" spelling, else the "Z" spelling;
\* ok is FALSE where the second strptime raises ValueError too.
date_from_utc_string(filedate_utc_string) ==
    LET first == strptime(filedate_utc_string, "+00:00")
    IN IF first.ok THEN first ELSE strptime(filedate_utc_string, "Z")

\* ------------------------------------------------------------------------
\* Index codec

\* read_fileindex_csv: a list of field lists, one per line of the file.
RECURSIVE ReadLines(_)
ReadLines(lines) ==
    IF lines = <<>> THEN <<>>
    ELSE LET fields == split(rstrip(Head(lines)), ";")
         IN <<IF Len(fields) <= COLUMN_FILEDATE THEN Append(fields, "") ELSE fields>>
            \o ReadLines(Tail(lines))

read_fileindex_csv(text) == ReadLines(Lines(text))

\* A variant of the line that leaves the date out.
CsvLineDateless(item) ==
    join(";", <<Field(item, COLUMN_CHECKSUM), Field(item, COLUMN_FILENAME)>>) \o "\n"

\* Lines 95-98: the line written for a record, checksum;filename[;filedate].
CsvLine(item) ==
    LET fields == <<Field(item, COLUMN_CHECKSUM), Field(item, COLUMN_FILENAME)>>
                  \o (IF Len(item) > COLUMN_FILEDATE
                      THEN <<Field(item, COLUMN_FILEDATE)>> ELSE <<>>)
    IN join(";", fields) \o "\n"

\* write_fileindex_csv: the lines of the records, in the order of the list
\* (put together by halves, which keeps the evaluation shallow on a long list).
RECURSIVE write_fileindex_csv(_)
write_fileindex_csv(fileindex) ==
    IF Len(fileindex) = 0 THEN ""
    ELSE IF Len(fileindex) = 1 THEN CsvLine(fileindex[1])
    ELSE LET half == Len(fileindex) \div 2
         IN write_fileindex_csv(SubSeq(fileindex, 1, half))
            \o write_fileindex_csv(SubSeq(fileindex, half + 1, Len(fileindex)))

\* The sort key of lines 192 and 309, compared as Python compares tuples.
KeyLess(a, b) ==
    LET ka == casefold(Field(a, COLUMN_FILENAME))
        kb == casefold(Field(b, COLUMN_FILENAME))
    IN \/ StrLess(ka, kb)
       \/ ka = kb /\ StrLess(Field(a, COLUMN_FILEDATE), Field(b, COLUMN_FILEDATE))

\* list.sort is stable: an item goes after every item whose key is not greater.
RECURSIVE InsertSorted(_, _)
InsertSorted(sorted, item) ==
    IF sorted = <<>> THEN <<item>>
    ELSE IF KeyLess(item, sorted[Len(sorted)])
         THEN Append(InsertSorted(SubSeq(sorted, 1, Len(sorted) - 1), item),
                     sorted[Len(sorted)])
         ELSE Append(sorted, item)

RECURSIVE SortFrom(_, _)
SortFrom(sorted, rest) ==
    IF rest = <<>> THEN sorted
    ELSE SortFrom(InsertSorted(sorted, Head(rest)), Tail(rest))

\* fileindex.sort(key=lambda a: (a[COLUMN_FILENAME].casefold(), a[COLUMN_FILEDATE]))
sort_fileindex(fileindex) == SortFrom(<<>>, fileindex)

\* The key reads a[COLUMN_FILEDATE]: IndexError on a record of fewer fields.
SortRaises(fileindex) ==
    \E i \in 1..Len(fileindex) : Len(fileindex[i]) <= COLUMN_FILEDATE

\* write_fileindex_md, the body of its loop: the text written for a record.
MdItem(item, repo_name, hashalgo, format, include_local_filename) ==
    LET checksum == Field(item, COLUMN_CHECKSUM)
        filename == Field(item, COLUMN_FILENAME)
        filedate == IF Len(item) > COLUMN_FILEDATE
                    THEN Field(item, COLUMN_FILEDATE) ELSE ""
        local_filename == IF Len(item) > COLUMN_LOCAL_FILENAME
                          THEN Field(item, COLUMN_LOCAL_FILENAME) ELSE ""
        link == "[" \o filename \o "](https://github.com/" \o repo_name
                \o "/releases/download/" \o hashalgo \o "/" \o checksum \o ")"
    IN IF format = "table"
       THEN (IF include_local_filename
             THEN "| " \o local_filename \o " " ELSE "")
            \o "| " \o link \o " | " \o filedate \o " | " \o checksum
            \o " |\n"
       ELSE "- " \o link \o "\n"
            \o (IF include_local_filename
                THEN "  - LocalFileName: " \o local_filename \o "\n"
                ELSE "")
            \o (IF filedate # ""
                THEN "  - FileDate: " \o filedate \o "\n" ELSE "")
            \o "  - " \o hashalgo \o ": " \o checksum \o "\n"

\* The texts of the records, in the order of the list (put together by halves,
\* which keeps the evaluation shallow on a long list).
RECURSIVE MdItems(_, _, _, _, _)
MdItems(fileindex, repo_name, hashalgo, format, include_local_filename) ==
    IF Len(fileindex) = 0 THEN ""
    ELSE IF Len(fileindex) = 1
    THEN MdItem(fileindex[1], repo_name, hashalgo, format, include_local_filename)
    ELSE LET half == Len(fileindex) \div 2
         IN MdItems(SubSeq(fileindex, 1, half), repo_name, hashalgo, format,
                    include_local_filename)
            \o MdItems(SubSeq(fileindex, half + 1, Len(fileindex)), repo_name, hashalgo,
                       format, include_local_filename)

\* write_fileindex_md: the human rendering, as a list (the default) or a table.

write_fileindex_md(fileindex, repo_name, hashalgo, format, include_local_filename) ==
    (IF format = "table"
     THEN (IF include_local_filename THEN "| LocalFileName " ELSE "")
          \o "| FileName | FileDate | " \o hashalgo \o " |\n"
          \o (IF include_local_filename THEN "|---------------" ELSE "")
          \o "|----------|----------|-------------|\n"
     ELSE "")
    \o MdItems(fileindex, repo_name, hashalgo, format, include_local_filename)

\* ------------------------------------------------------------------------
\* Hash provider

\* get_hashcmd(hashalgo): the name of the hashlib function, "None" when the
\* identifier is not one of the five.
get_hashcmd(hashalgo) ==
    IF hashalgo = "MD5" THEN "md5"
    ELSE IF hashalgo = "SHA224" THEN "sha224"
    ELSE IF hashalgo = "SHA256" THEN "sha256"
    ELSE IF hashalgo = "SHA384" THEN "sha384"
    ELSE IF hashalgo = "SHA512" THEN "sha512"
    ELSE "None"

\* The file contents of the model and their digests (one hex digit stands for
\* the hexdigest): hashcmd is a function of the bytes alone.
Bytes == {"x", "y"}
hashcmd(bytes) == IF bytes = "x" THEN "c" ELSE "d"

\* ------------------------------------------------------------------------
\* Bounds and input sets of the model

MaxFiles == 1      \* files in the incoming directory
MaxFaults == 1     \* failures of the store or of the process, over a behaviour
MaxRuns == 2       \* runs of upload or download, over a behaviour

repo_name == "Slicer/SlicerTestingData"
HashAlgos == {"SHA256", "SHA1"}       \* identifiers a run is started with
TheAlgo == "SHA256"                   \* the one release the store holds
FileNames == {"a", "a.c"}             \* names of incoming files
\* Modification times: 2020-01-01T12:00:00 exactly, and half a second later.
MTimes == {[sec |-> 1577880000, us |-> 0], [sec |-> 1577880000, us |-> 500000]}
IncomingFiles == [name : FileNames, bytes : Bytes, mtime : MTimes]
\* The incoming directories: at most MaxFiles files, of distinct names.
IncomingDirs ==
    {files \in SUBSET IncomingFiles :
        /\ Cardinality(files) <= MaxFiles
        /\ \A f, g \in files : f.name = g.name => f = g}
\* Wall-clock times at which a run may copy a file.
Clock == {[sec |-> 1600000000, us |-> 250000], [sec |-> 1600000001, us |-> 0]}
\* The index a release published earlier: a legacy one, with a dateless line
\* and a line dated in the "Z" spelling.
LegacyIndex == "d;a\nc;a.c;2020-01-01T12:00:00.0Z\n"

\* ------------------------------------------------------------------------
\* Directories: a directory is a set of file records with distinct names.

isfile(dir, name) == \E f \in dir : f.name = name
FileOf(dir, name) == CHOOSE f \in dir : f.name = name
WriteFile(dir, file) == {f \in dir : f.name # file.name} \cup {file}
RemoveFile(dir, name) == {f \in dir : f.name # name}

\* Every order in which the members of a set may be listed.
Orders(S) ==
    {o \in [1..Cardinality(S) -> S] : \A i, j \in 1..Cardinality(S) : i # j => o[i] # o[j]}

\* ------------------------------------------------------------------------
\* State

VARIABLES
    release,      \* the release tagged TheAlgo: [exists, body]
    assets,       \* its assets: set of [name, state, content]
    incoming,     \* INCOMING: [exists, files], files a set of [name, bytes, mtime]
    dirs,         \* the directories <root>/<hashalgo>[-DOWNLOAD] that exist
    hashalgoDir,  \* files of <root>/SHA256: set of [name, content]
    downloadDir,  \* files of <root>/SHA256-DOWNLOAD: set of [name, content, mtime]
    pc,           \* position of the running upload or download, "idle" between runs
    run,          \* the run's operation, argument and locals
    outcome,      \* how the run ended
    calls,        \* the remote store calls the run has made, in order
    start,        \* the remote index and assets and the local files at the start of the run
    prev,         \* what the previous run left for the next one to be compared with
    faults,       \* failures injected so far
    runs,         \* runs started so far
    probe         \* a function applied on its own: [op, step, arg, result, raised, from]

progvars == <<release, assets, incoming, dirs, hashalgoDir, downloadDir,
              pc, run, outcome, calls, start, prev, faults, runs>>

vars == <<progvars, probe>>

NoRun ==
    [op |-> "none", hashalgo |-> "", fileindex |-> <<>>, uploaded_hashes |-> {},
     i |-> 0, fileindex_with_local_filename |-> <<>>]
NoStart ==
    [index |-> <<>>, uploaded |-> {}, partial |-> {}, dirs |-> {}, cached |-> {},
     downloaded |-> {}]
NoPrev == [upload |-> FALSE, failed |-> {}, crashed |-> FALSE, fetched |-> FALSE]
NoProbe == [op |-> "none", step |-> 0, arg |-> "", result |-> "", raised |-> "", from |-> ""]

CsvName(hashalgo) == hashalgo \o ".csv"
MdName(hashalgo) == hashalgo \o ".md"
DownloadDirName(hashalgo) == hashalgo \o "-DOWNLOAD"

\* ------------------------------------------------------------------------
\* The remote store, as github_release drives it.  The store holds the one
\* release tagged TheAlgo; a call naming another tag finds no release.

AssetsOf(tag) == IF tag = TheAlgo /\ release.exists THEN assets ELSE {}

AssetState(tag, name) ==
    IF \E a \in AssetsOf(tag) : a.name = name
    THEN (CHOOSE a \in AssetsOf(tag) : a.name = name).state
    ELSE "absent"

AssetContent(tag, name) == (CHOOSE a \in AssetsOf(tag) : a.name = name).content

\* gh_asset_download can succeed only on an asset that is fully uploaded.
CanDownload(tag, name) == AssetState(tag, name) = "uploaded"

\* The outcomes of a call whose return value the program does not look at:
\* it worked, it returned without doing the work, or it raised.
CallResults == {"ok", "failed", "raised"}

\* gh_asset_upload of a local file: it can work only if the release and the
\* file exist.
CanUpload(tag, dir, name) == tag = TheAlgo /\ release.exists /\ isfile(dir, name)

\* Without a release the call raises; with no file to send it sends nothing.
UploadResults(tag, dir, name) ==
    IF CanUpload(tag, dir, name) THEN CallResults
    ELSE IF tag = TheAlgo /\ release.exists THEN {"failed"}
    ELSE {"raised"}

\* The assets after gh_asset_upload of content under name ended in result: an
\* interrupted transfer leaves a partial asset where there was none.
AfterUpload(name, content, result) ==
    IF result = "ok"
    THEN {a \in assets : a.name # name}
         \cup {[name |-> name, state |-> "uploaded", content |-> content]}
    ELSE IF result = "raised" /\ release.exists /\ ~\E a \in assets : a.name = name
    THEN assets \cup {[name |-> name, state |-> "partial", content |-> ""]}
    ELSE assets

\* The assets after gh_asset_delete of name ended in result.
AfterDelete(name, result) ==
    IF result = "ok" THEN {a \in assets : a.name # name} ELSE assets

Call(op, name, result) == [op |-> op, name |-> name, result |-> result]

\* The index the release publishes: the records of its index asset.
PublishedIndex ==
    IF CanDownload(TheAlgo, CsvName(TheAlgo))
    THEN read_fileindex_csv(AssetContent(TheAlgo, CsvName(TheAlgo)))
    ELSE <<>>

Snapshot ==
    [index |-> PublishedIndex,
     uploaded |-> {a.name : a \in {b \in AssetsOf(TheAlgo) : b.state = "uploaded"}},
     partial |-> {a.name : a \in {b \in AssetsOf(TheAlgo) : b.state # "uploaded"}},
     dirs |-> dirs,
     cached |-> {f.name : f \in hashalgoDir},
     downloaded |-> downloadDir]

\* ------------------------------------------------------------------------
\* Initial states.  Locally: INCOMING missing or holding any of the incoming
\* directories, nothing else.  Remotely: no release yet; or a release published
\* earlier from the legacy index with its blobs uploaded; or that release with
\* the upload of blob "c" interrupted, which left a partial asset.

LegacyStore(partial) ==
    LET fileindex == read_fileindex_csv(LegacyIndex)
        md == write_fileindex_md(fileindex, repo_name, TheAlgo, "list", FALSE)
    IN [body |-> md,
        assets |->
          {[name |-> CsvName(TheAlgo), state |-> "uploaded", content |-> LegacyIndex],
           [name |-> MdName(TheAlgo), state |-> "uploaded", content |-> md]}
          \cup {IF Field(fileindex[i], COLUMN_CHECKSUM) \in partial
                THEN [name |-> Field(fileindex[i], COLUMN_CHECKSUM),
                      state |-> "partial", content |-> ""]
                ELSE [name |-> Field(fileindex[i], COLUMN_CHECKSUM),
                      state |-> "uploaded",
                      content |-> CHOOSE b \in Bytes :
                                    hashcmd(b) = Field(fileindex[i], COLUMN_CHECKSUM)] :
                i \in 1..Len(fileindex)}]

Init ==
    /\ \/ release = [exists |-> FALSE, body |-> ""] /\ assets = {}
       \/ \E partial \in {{}, {"c"}} :
            /\ release = [exists |-> TRUE, body |-> LegacyStore(partial).body]
            /\ assets = LegacyStore(partial).assets
    /\ \/ incoming = [exists |-> FALSE, files |-> {}]
       \/ \E files \in IncomingDirs : incoming = [exists |-> TRUE, files |-> files]
    /\ dirs = {}
    /\ hashalgoDir = {}
    /\ downloadDir = {}
    /\ pc = "idle"
    /\ run = NoRun
    /\ outcome = "none"
    /\ calls = <<>>
    /\ start = NoStart
    /\ prev = NoPrev
    /\ faults = 0
    /\ runs = 0
    /\ probe = NoProbe

\* A step injects n failures: the behaviour may have MaxFaults of them in all.
Inject(n) ==
    /\ faults + n <= MaxFaults
    /\ faults' = faults + n

\* The failure of a call that could have worked is an injected one.
Failure(worked, could) == IF ~worked /\ could THEN 1 ELSE 0

\* A run ends: with an error raised to the caller, or normally.
Ends(how) ==
    /\ pc' = "done"
    /\ outcome' = how

\* ------------------------------------------------------------------------
\* upload(repo_name, root_dir, incoming_dir, hashalgo)

\* Lines 248-257: the pre-flight checks, then the hashalgo directory.
UploadBegin ==
    /\ pc = "idle"
    /\ runs < MaxRuns
    /\ runs' = runs + 1
    /\ \E hashalgo \in HashAlgos :
         /\ run' = [NoRun EXCEPT !.op = "upload", !.hashalgo = hashalgo]
         /\ IF get_hashcmd(hashalgo) = "None" \/ ~incoming.exists
            THEN Ends("ValueError") /\ dirs' = dirs
            ELSE /\ dirs' = dirs \cup {hashalgo}
                 /\ pc' = "u_fetch"
                 /\ outcome' = "running"
    /\ calls' = <<>>
    /\ start' = Snapshot
    /\ UNCHANGED <<release, assets, incoming, hashalgoDir, downloadDir, prev, faults,
                   probe>>

\* Line 267: what the except clause around upload's fetch of the index catches.
UploadCatches(error) == error = "ValueError"

\* Lines 261-270 with download_fileindex_csv (70-79): the local copy of the
\* index is removed and fetched again; a failed fetch raises ValueError, which
\* upload catches to go on with an empty index, as for a new release.
UploadGetIndex ==
    /\ pc = "u_fetch"
    /\ \E ok \in BOOLEAN :
         LET csv == CsvName(run.hashalgo)
             removed == RemoveFile(hashalgoDir, csv)
         IN /\ ok => CanDownload(run.hashalgo, csv)
            /\ Inject(Failure(ok, CanDownload(run.hashalgo, csv)))
            /\ calls' = Append(calls, Call("downloadAsset", csv,
                                           IF ok THEN "ok" ELSE "failed"))
            /\ IF ok
               THEN /\ hashalgoDir' =
                         WriteFile(removed, [name |-> csv,
                                             content |-> AssetContent(run.hashalgo, csv)])
                    /\ run' = [run EXCEPT !.fileindex =
                                 read_fileindex_csv(AssetContent(run.hashalgo, csv))]
                    /\ pc' = "u_assets"
                    /\ outcome' = outcome
               ELSE /\ hashalgoDir' = removed
                    /\ run' = [run EXCEPT !.fileindex = <<>>]
                    /\ IF UploadCatches("ValueError")
                       THEN pc' = "u_assets" /\ outcome' = outcome
                       ELSE Ends("ValueError")
    /\ UNCHANGED <<release, assets, incoming, dirs, downloadDir, start, prev, runs,
                   probe>>

\* Lines 272-283: with a non-empty index the assets are listed; the uploaded
\* ones become the skip-set (order and repetition do not matter to `in`, so it
\* is kept as a set), every other one is deleted.
UploadGetAssets ==
    /\ pc = "u_assets"
    /\ IF run.fileindex = <<>>
       THEN /\ run' = [run EXCEPT !.uploaded_hashes = {}]
            /\ pc' = "u_merge"
            /\ UNCHANGED <<assets, calls, outcome, faults>>
       ELSE \E listed \in {"ok", "raised"} :
              IF listed = "raised"
              THEN /\ calls' = Append(calls, Call("listAssets", "", "raised"))
                   /\ Ends("RemoteError")
                   /\ Inject(1)
                   /\ UNCHANGED <<assets, run>>
              ELSE LET uploaded_assets == AssetsOf(run.hashalgo)
                       partial == {a.name : a \in {b \in uploaded_assets :
                                                      b.state # "uploaded"}}
                       order == CHOOSE o \in Orders(partial) : TRUE
                   IN \E result \in [partial -> {"ok", "failed"}] :
                        /\ Inject(Cardinality({n \in partial : result[n] = "failed"}))
                        /\ assets' = {a \in assets :
                                        ~(a.name \in partial /\ result[a.name] = "ok")}
                        /\ calls' = calls \o <<Call("listAssets", "", "ok")>>
                                    \o [k \in 1..Len(order) |->
                                          Call("deleteAsset", order[k], result[order[k]])]
                        /\ run' = [run EXCEPT !.uploaded_hashes =
                                     {a.name : a \in {b \in uploaded_assets :
                                                         b.state = "uploaded"}}]
                        /\ pc' = "u_merge"
                        /\ outcome' = outcome
    /\ UNCHANGED <<release, incoming, dirs, hashalgoDir, downloadDir, start, prev, runs,
                   probe>>

\* Lines 293-302: a file whose (checksum, filename) is not indexed is appended.
RECURSIVE AddIncoming(_, _)
AddIncoming(fileindex, files) ==
    IF files = <<>> THEN fileindex
    ELSE LET filename == Head(files).name
             checksum == hashcmd(Head(files).bytes)
             filedate == date_to_utc_string(get_filedate(Head(files)))
             existingItems ==
                 {i \in 1..Len(fileindex) :
                    /\ Field(fileindex[i], COLUMN_CHECKSUM) = checksum
                    /\ Field(fileindex[i], COLUMN_FILENAME) = filename}
         IN AddIncoming(IF existingItems = {}
                        THEN Append(fileindex, <<checksum, filename, filedate>>)
                        ELSE fileindex,
                        Tail(files))

\* Lines 303-306: the hash-named copy is made when it is not there yet.
RECURSIVE CopyIncoming(_, _)
CopyIncoming(dir, files) ==
    IF files = <<>> THEN dir
    ELSE LET checksum == hashcmd(Head(files).bytes)
         IN CopyIncoming(IF isfile(dir, checksum) THEN dir
                         ELSE WriteFile(dir, [name |-> checksum,
                                              content |-> Head(files).bytes]),
                         Tail(files))

\* Lines 287-312: the incoming files, in the order os.listdir gives them, are
\* merged into the index; the index is sorted and written with its rendering.
UploadAddIncoming ==
    /\ pc = "u_merge"
    /\ \E filenames \in Orders({f \in incoming.files : ~startswith(f.name, ".")}) :
         LET merged == AddIncoming(run.fileindex, filenames)
             copied == CopyIncoming(hashalgoDir, filenames)
             sorted == sort_fileindex(merged)
         IN IF SortRaises(merged)
            THEN /\ Ends("IndexError")
                 /\ hashalgoDir' = copied
                 /\ run' = [run EXCEPT !.fileindex = merged]
            ELSE /\ hashalgoDir' =
                      WriteFile(WriteFile(copied,
                          [name |-> CsvName(run.hashalgo),
                           content |-> write_fileindex_csv(sorted)]),
                          [name |-> MdName(run.hashalgo),
                           content |-> write_fileindex_md(sorted, repo_name,
                                                          run.hashalgo, "list", FALSE)])
                 /\ run' = [run EXCEPT !.fileindex = sorted]
                 /\ pc' = "u_create"
                 /\ outcome' = outcome
    /\ UNCHANGED <<release, assets, incoming, dirs, downloadDir, calls, start, prev,
                   faults, runs, probe>>

\* Line 317: gh_release_create.
UploadCreateRelease ==
    /\ pc = "u_create"
    /\ \E result \in CallResults :
         /\ Inject(Failure(result = "ok", TRUE))
         /\ calls' = Append(calls, Call("createBucket", run.hashalgo, result))
         /\ release' = IF result = "ok" THEN [release EXCEPT !.exists = TRUE]
                       ELSE release
         /\ IF result = "raised" THEN Ends("RemoteError")
            ELSE pc' = "u_del_csv" /\ outcome' = outcome
    /\ UNCHANGED <<assets, incoming, dirs, hashalgoDir, downloadDir, run, start, prev, runs,
                   probe>>

\* Lines 320-321: the old index and rendering assets are deleted.
UploadDeleteOld ==
    /\ pc \in {"u_del_csv", "u_del_md"}
    /\ \E result \in CallResults :
         LET name == IF pc = "u_del_csv" THEN CsvName(run.hashalgo)
                     ELSE MdName(run.hashalgo)
         IN /\ Inject(Failure(result = "ok", TRUE))
            /\ calls' = Append(calls, Call("deleteAsset", name, result))
            /\ assets' = AfterDelete(name, result)
            /\ IF result = "raised" THEN Ends("RemoteError")
               ELSE /\ pc' = IF pc = "u_del_csv" THEN "u_del_md" ELSE "u_put_csv"
                    /\ outcome' = outcome
    /\ UNCHANGED <<release, incoming, dirs, hashalgoDir, downloadDir, run, start, prev, runs,
                   probe>>

\* Lines 324-325: the new index and rendering are uploaded.
UploadPutIndex ==
    /\ pc \in {"u_put_csv", "u_put_md"}
    /\ LET name == IF pc = "u_put_csv" THEN CsvName(run.hashalgo)
                   ELSE MdName(run.hashalgo)
       IN \E result \in UploadResults(run.hashalgo, hashalgoDir, name) :
            /\ Inject(Failure(result = "ok", CanUpload(run.hashalgo, hashalgoDir, name)))
            /\ calls' = Append(calls, Call("uploadAsset", name, result))
            /\ assets' = AfterUpload(name, FileOf(hashalgoDir, name).content, result)
            /\ IF result = "raised" THEN Ends("RemoteError") /\ run' = run
               ELSE /\ pc' = IF pc = "u_put_csv" THEN "u_put_md"
                             ELSE IF Len(run.fileindex) = 0 THEN "u_notes"
                             ELSE "u_blobs"
                    /\ run' = [run EXCEPT !.i = 1]
                    /\ outcome' = outcome
    /\ UNCHANGED <<release, incoming, dirs, hashalgoDir, downloadDir, start, prev, runs,
                   probe>>

\* A variant of the skip test that never skips.
NeverSkipped(checksum, uploaded_hashes) == FALSE

\* Whether line 331 skips the upload of a record's blob.
AlreadyUploaded(checksum, uploaded_hashes) == checksum \in uploaded_hashes

\* Lines 328-335, one record: its blob is uploaded unless in the skip-set.
UploadBlob ==
    /\ pc = "u_blobs"
    /\ LET checksum == Field(run.fileindex[run.i], COLUMN_CHECKSUM)
           next == IF run.i = Len(run.fileindex) THEN "u_notes" ELSE "u_blobs"
       IN IF AlreadyUploaded(checksum, run.uploaded_hashes)
          THEN /\ pc' = next
               /\ run' = [run EXCEPT !.i = run.i + 1]
               /\ UNCHANGED <<assets, calls, outcome, faults>>
          ELSE \E result \in UploadResults(run.hashalgo, hashalgoDir, checksum) :
                 /\ Inject(Failure(result = "ok",
                                   CanUpload(run.hashalgo, hashalgoDir, checksum)))
                 /\ calls' = Append(calls, Call("uploadAsset", checksum, result))
                 /\ assets' = AfterUpload(checksum,
                                  IF isfile(hashalgoDir, checksum)
                                  THEN FileOf(hashalgoDir, checksum).content ELSE "",
                                  result)
                 /\ IF result = "raised" THEN Ends("RemoteError") /\ run' = run
                    ELSE /\ pc' = next
                         /\ run' = [run EXCEPT !.i = run.i + 1]
                         /\ outcome' = outcome
    /\ UNCHANGED <<release, incoming, dirs, hashalgoDir, downloadDir, start, prev, runs,
                   probe>>

NotesLimit == 125000

\* Lines 341-343: the text published in place of a rendering over the limit.
PointerNotice(hashalgo) ==
    "See [" \o hashalgo \o ".md](https://github.com/" \o repo_name \o "/blob/main/"
    \o hashalgo \o "/" \o hashalgo \o ".md)\n\n_Since the release description is > "
    \o "125000 characters, the corresponding markdown file is instead pushed into "
    \o "the repository._"

\* A variant of the size guard that replaces a rendering at the limit too.
NotesReplacedAtLimit(md, hashalgo) ==
    IF Len(md) >= NotesLimit THEN PointerNotice(hashalgo) ELSE md

\* Lines 338-343: the text to publish for a rendering.
release_notes(md, hashalgo) ==
    IF Len(md) > NotesLimit THEN PointerNotice(hashalgo) ELSE md

\* Lines 337-346: the rendering becomes the release description.
UploadReleaseNotes ==
    /\ pc = "u_notes"
    /\ \E result \in CallResults :
         /\ Inject(Failure(result = "ok", TRUE))
         /\ calls' = Append(calls, Call("setDescription", run.hashalgo, result))
         /\ release' =
              IF result = "ok" /\ release.exists
              THEN [release EXCEPT !.body =
                      release_notes(FileOf(hashalgoDir, MdName(run.hashalgo)).content,
                                    run.hashalgo)]
              ELSE release
         /\ Ends(IF result = "raised" THEN "RemoteError" ELSE "ok")
    /\ UNCHANGED <<assets, incoming, dirs, hashalgoDir, downloadDir, run, start, prev, runs,
                   probe>>

\* ------------------------------------------------------------------------
\* download(repo_name, root_dir, download_dir, hashalgo)

\* Lines 174-179: the download and hashalgo directories are made.
DownloadBegin ==
    /\ pc = "idle"
    /\ runs < MaxRuns
    /\ runs' = runs + 1
    /\ \E hashalgo \in HashAlgos :
         /\ run' = [NoRun EXCEPT !.op = "download", !.hashalgo = hashalgo]
         /\ dirs' = dirs \cup {DownloadDirName(hashalgo), hashalgo}
    /\ pc' = "d_fetch"
    /\ outcome' = "running"
    /\ calls' = <<>>
    /\ start' = Snapshot
    /\ UNCHANGED <<release, assets, incoming, hashalgoDir, downloadDir, prev, faults,
                   probe>>

\* Lines 181-194 with download_fileindex_csv (70-79): a failed fetch of the
\* index raises ValueError; a fetched index is read and sorted.
DownloadGetIndex ==
    /\ pc = "d_fetch"
    /\ \E ok \in BOOLEAN :
         LET csv == CsvName(run.hashalgo)
             removed == IF run.hashalgo = TheAlgo THEN RemoveFile(hashalgoDir, csv)
                        ELSE hashalgoDir
         IN /\ ok => CanDownload(run.hashalgo, csv)
            /\ Inject(Failure(ok, CanDownload(run.hashalgo, csv)))
            /\ calls' = Append(calls, Call("downloadAsset", csv,
                                           IF ok THEN "ok" ELSE "failed"))
            /\ IF ~ok
               THEN /\ Ends("ValueError")
                    /\ hashalgoDir' = removed
                    /\ run' = run
               ELSE LET fileindex == read_fileindex_csv(AssetContent(run.hashalgo, csv))
                    IN /\ hashalgoDir' =
                            WriteFile(removed,
                                      [name |-> csv,
                                       content |-> AssetContent(run.hashalgo, csv)])
                       /\ IF SortRaises(fileindex)
                          THEN Ends("IndexError") /\ run' = [run EXCEPT !.fileindex = fileindex]
                          ELSE /\ run' = [run EXCEPT
                                            !.fileindex = sort_fileindex(fileindex),
                                            !.i = 1]
                               /\ pc' = IF fileindex = <<>> THEN "d_finish" ELSE "d_loop"
                               /\ outcome' = outcome
    /\ UNCHANGED <<release, assets, incoming, dirs, downloadDir, start, prev, runs,
                   probe>>

\* A variant of the count that looks at the record alone.
CountedAlone(fileindex, filename) == 1

\* Counter(filenames)[filename] (lines 188, 194): the records of the whole
\* index that carry the filename.
filenames_counter(fileindex, filename) ==
    Cardinality({i \in 1..Len(fileindex) :
                    Field(fileindex[i], COLUMN_FILENAME) = filename})

\* Lines 219-226: the local filename of a record.
local_filename(fileindex, filename, checksum) ==
    IF filenames_counter(fileindex, filename) = 1
    THEN filename
    ELSE filename \o "." \o checksum

\* A variant of the cache test that finds no blob cached.
AlwaysFetched(dir, checksum) == TRUE

\* Line 203: whether the blob of a record has to be fetched.
NeedsFetch(dir, checksum) == ~isfile(dir, checksum)

\* Lines 199-234, one record: its blob is fetched unless cached (a failed
\* fetch skips the record), copied under the local filename, and the copy is
\* given the date of the record.  copyfile leaves the time of the copy on the
\* file; date_from_utc_string raising ValueError ends the run there.
DownloadItem ==
    /\ pc = "d_loop"
    /\ LET fileindex_item == run.fileindex[run.i]
           checksum == Field(fileindex_item, COLUMN_CHECKSUM)
           filename == Field(fileindex_item, COLUMN_FILENAME)
           filedate == IF Len(fileindex_item) > COLUMN_FILEDATE
                       THEN Field(fileindex_item, COLUMN_FILEDATE) ELSE ""
           cached == ~NeedsFetch(hashalgoDir, checksum)
           next == IF run.i = Len(run.fileindex) THEN "d_finish" ELSE "d_loop"
           local == local_filename(run.fileindex, filename, checksum)
           parsed == date_from_utc_string(IF filedate # "" THEN filedate
                                          ELSE DEFAULT_FILE_DATE_UTC_STRING)
       IN \E ok \in IF cached THEN {TRUE}
                    ELSE {b \in BOOLEAN : b => CanDownload(run.hashalgo, checksum)},
             now \in Clock :
            /\ Inject(Failure(ok, CanDownload(run.hashalgo, checksum)))
            /\ calls' = IF cached THEN calls
                        ELSE Append(calls, Call("downloadAsset", checksum,
                                                IF ok THEN "ok" ELSE "failed"))
            /\ IF ~ok
               THEN /\ pc' = next
                    /\ run' = [run EXCEPT !.i = run.i + 1]
                    /\ UNCHANGED <<hashalgoDir, downloadDir, outcome>>
               ELSE LET content == IF cached THEN FileOf(hashalgoDir, checksum).content
                                   ELSE AssetContent(run.hashalgo, checksum)
                    IN /\ hashalgoDir' = WriteFile(hashalgoDir,
                                             [name |-> checksum, content |-> content])
                       /\ IF parsed.ok
                          THEN /\ downloadDir' =
                                    WriteFile(downloadDir,
                                        [name |-> local, content |-> content,
                                         mtime |-> timestamp(parsed.date)])
                               /\ run' = [run EXCEPT
                                    !.i = run.i + 1,
                                    !.fileindex_with_local_filename =
                                        Append(@, <<checksum, filename, filedate, local>>)]
                               /\ pc' = next
                               /\ outcome' = outcome
                          ELSE /\ downloadDir' =
                                    WriteFile(downloadDir,
                                        [name |-> local, content |-> content,
                                         mtime |-> now])
                               /\ Ends("ValueError")
                               /\ run' = run
    /\ UNCHANGED <<release, assets, incoming, dirs, start, prev, runs, probe>>

\* Lines 236-239: the sorted index and the rendering with local filenames are
\* written (the modification time of the rendering is not tracked).
DownloadFinish ==
    /\ pc = "d_finish"
    /\ hashalgoDir' = WriteFile(hashalgoDir,
                          [name |-> CsvName(run.hashalgo),
                           content |-> write_fileindex_csv(run.fileindex)])
    /\ downloadDir' = WriteFile(downloadDir,
                          [name |-> run.hashalgo \o "_local.md",
                           content |-> write_fileindex_md(
                                           run.fileindex_with_local_filename,
                                           repo_name, run.hashalgo, "list", TRUE),
                           mtime |-> [sec |-> 0, us |-> 0]])
    /\ Ends("ok")
    /\ UNCHANGED <<release, assets, incoming, dirs, run, calls, start, prev, faults, runs,
                   probe>>

\* ------------------------------------------------------------------------
\* The process is killed in the middle of a run.
Crash ==
    /\ pc \notin {"idle", "done"}
    /\ Ends("crashed")
    /\ Inject(1)
    /\ UNCHANGED <<release, assets, incoming, dirs, hashalgoDir, downloadDir,
                   run, calls, start, prev, runs, probe>>

\* The blobs a finished upload asked the store to take and that it did not take.
FailedUploads ==
    {calls[k].name : k \in {j \in 1..Len(calls) :
                              /\ calls[j].op = "uploadAsset"
                              /\ calls[j].name \notin {CsvName(run.hashalgo),
                                                       MdName(run.hashalgo)}
                              /\ calls[j].result # "ok"}}
    \ {calls[k].name : k \in {j \in 1..Len(calls) :
                                /\ calls[j].op = "uploadAsset"
                                /\ calls[j].result = "ok"}}

\* Whether the run is an upload killed after it deleted the index asset and
\* before it sent the new one.
CrashedWithoutIndex ==
    /\ run.op = "upload"
    /\ outcome = "crashed"
    /\ \E k \in 1..Len(calls) :
         calls[k] = Call("deleteAsset", CsvName(run.hashalgo), "ok")
    /\ \A k \in 1..Len(calls) :
         ~(calls[k].op = "uploadAsset" /\ calls[k].name = CsvName(run.hashalgo))

\* Whether the run is a download that fetched the index and has the blob of
\* every record of it in the hashalgo directory.
EveryBlobFetched ==
    /\ run.op = "download"
    /\ Len(calls) >= 1
    /\ calls[1] = Call("downloadAsset", CsvName(run.hashalgo), "ok")
    /\ \A i \in 1..Len(run.fileindex) :
         isfile(hashalgoDir, Field(run.fileindex[i], COLUMN_CHECKSUM))

\* The caller has the result; the next run may start.
Return ==
    /\ pc = "done"
    /\ pc' = "idle"
    /\ prev' = [upload |-> run.op = "upload" /\ outcome = "ok",
                failed |-> IF run.op = "upload" /\ outcome = "ok"
                           THEN FailedUploads ELSE {},
                crashed |-> CrashedWithoutIndex,
                fetched |-> EveryBlobFetched]
    /\ run' = NoRun
    /\ outcome' = "none"
    /\ calls' = <<>>
    /\ start' = NoStart
    /\ UNCHANGED <<release, assets, incoming, dirs, hashalgoDir, downloadDir, faults, runs,
                   probe>>

Next ==
    \/ UploadBegin
    \/ UploadGetIndex
    \/ UploadGetAssets
    \/ UploadAddIncoming
    \/ UploadCreateRelease
    \/ UploadDeleteOld
    \/ UploadPutIndex
    \/ UploadBlob
    \/ UploadReleaseNotes
    \/ DownloadBegin
    \/ DownloadGetIndex
    \/ DownloadItem
    \/ DownloadFinish
    \/ Crash
    \/ Return

Spec == Init /\ [][Next]_vars

\* ------------------------------------------------------------------------
\* The functions of the program applied on their own, outside a run: probe
\* holds the function applied last (op), its argument, what it returned, the
\* error it raised ("" for none), and, when the argument is what the function
\* applied before returned (step 2), the argument of that one (from).

MaxLines == 2      \* lines of an index text, records of a list, files of a directory

\* Lines an index file may hold: without a date, dated in either spelling,
\* and lines of one field, of four fields, and with a date that is none.
IndexLines ==
    {"c;a", "d;B;2020-01-01T12:00:00.0Z", "c;a;2020-01-01T12:00:00.500000+00:00",
     "c", "c;a;2020-01-01T12:00:00.0Z;x", "c;a;yesterday"}

RECURSIVE TextsOf(_)
TextsOf(n) ==
    IF n = 0 THEN {""}
    ELSE {""} \cup {line \o "\n" \o text : line \in IndexLines, text \in TextsOf(n - 1)}

IndexTexts == TextsOf(MaxLines)

Probe(op, step, arg, result, raised, from) ==
    [op |-> op, step |-> step, arg |-> arg, result |-> result, raised |-> raised,
     from |-> from]

\* read_fileindex_csv on an index text: it returns a list for every text.
ReadIndexText ==
    /\ pc = "idle"
    /\ probe.op = "none"
    /\ \E text \in IndexTexts :
         probe' = Probe("read_fileindex_csv", 1, text, read_fileindex_csv(text), "", "")
    /\ UNCHANGED progvars

\* write_fileindex_csv on the list that read_fileindex_csv returned.
WriteIndexRead ==
    /\ pc = "idle"
    /\ probe.op = "read_fileindex_csv"
    /\ probe.step = 1
    /\ probe' = Probe("write_fileindex_csv", 2, probe.result,
                      write_fileindex_csv(probe.result), "", probe.arg)
    /\ UNCHANGED progvars

\* Records with a date, in either spelling; a filename may hold a blank or
\* a semicolon, as a file of INCOMING may.
UnitRecords ==
    {<<checksum, filename, filedate>> :
        checksum \in {"c", "d"}, filename \in {"a", "B c", "a;b"},
        filedate \in {"2020-01-01T12:00:00.500000+00:00", "2020-01-01T12:00:00.0Z"}}

RECURSIVE ListsOf(_)
ListsOf(n) ==
    IF n = 0 THEN {<<>>}
    ELSE {<<>>} \cup {<<item>> \o fileindex : item \in UnitRecords,
                                             fileindex \in ListsOf(n - 1)}

RecordLists == ListsOf(MaxLines)

\* write_fileindex_csv on a list of records.
WriteRecords ==
    /\ pc = "idle"
    /\ probe.op = "none"
    /\ \E fileindex \in RecordLists :
         probe' = Probe("write_fileindex_csv", 1, fileindex,
                        write_fileindex_csv(fileindex), "", "")
    /\ UNCHANGED progvars

\* read_fileindex_csv on the text that write_fileindex_csv wrote.
ReadIndexWritten ==
    /\ pc = "idle"
    /\ probe.op = "write_fileindex_csv"
    /\ probe.step = 1
    /\ probe' = Probe("read_fileindex_csv", 2, probe.result,
                      read_fileindex_csv(probe.result), "", probe.arg)
    /\ UNCHANGED progvars

\* Modification times of files: the epoch, 2020-01-01T12:00:00 and the last
\* second of a 29 February, each whole, a microsecond and half a second later.
FileTimes == [sec : {0, 1577880000, 1709251199}, us : {0, 1, 500000}]

\* Line 296: date_to_utc_string(get_filedate(filepath)) for a file.
DateToString ==
    /\ pc = "idle"
    /\ probe.op = "none"
    /\ \E mtime \in FileTimes :
         probe' = Probe("date_to_utc_string", 1, mtime,
                        date_to_utc_string(get_filedate([mtime |-> mtime])), "", "")
    /\ UNCHANGED progvars

\* Line 231: date_from_utc_string on the string written, and the timestamp
\* set_filedate would set from the date returned.
DateFromString ==
    /\ pc = "idle"
    /\ probe.op = "date_to_utc_string"
    /\ probe.step = 1
    /\ LET parsed == date_from_utc_string(probe.result)
       IN probe' = Probe("date_from_utc_string", 2, probe.result,
                         IF parsed.ok THEN timestamp(parsed.date) ELSE "",
                         IF parsed.ok THEN "" ELSE "ValueError", probe.arg)
    /\ UNCHANGED progvars

\* Incoming directories with files whose names differ in case only.
UnitFiles == [name : {"A", "a"}, bytes : Bytes, mtime : MTimes]
UnitDirs ==
    {files \in SUBSET UnitFiles :
        /\ Cardinality(files) <= MaxLines
        /\ \A f, g \in files : f.name = g.name => f = g}

\* The index read at the start of a run: none, or one with a record.
PriorIndexes == {<<>>, read_fileindex_csv("d;B;2020-01-01T12:00:00.0Z\n")}

\* Lines 287-310: the index text upload writes for a prior index and the
\* incoming files as listed.
IndexText(fileindex, filenames) ==
    write_fileindex_csv(sort_fileindex(AddIncoming(fileindex, filenames)))

\* A run of lines 287-310 over a prior index and an incoming directory.
PublishIndex ==
    /\ pc = "idle"
    /\ probe.op = "none"
    /\ \E fileindex \in PriorIndexes, files \in UnitDirs :
         \E filenames \in Orders(files) :
            probe' = Probe("upload", 1,
                           [fileindex |-> fileindex, filenames |-> filenames],
                           IndexText(fileindex, filenames), "", "")
    /\ UNCHANGED progvars

\* Another run over the same prior index and the same incoming directory,
\* which os.listdir may list in another order.
PublishIndexAgain ==
    /\ pc = "idle"
    /\ probe.op = "upload"
    /\ probe.step = 1
    /\ \E filenames \in Orders({probe.arg.filenames[k] :
                                  k \in 1..Len(probe.arg.filenames)}) :
         probe' = Probe("upload", 2,
                        [fileindex |-> probe.arg.fileindex, filenames |-> filenames],
                        IndexText(probe.arg.fileindex, filenames), "", probe.result)
    /\ UNCHANGED progvars

\* s repeated n times.
RECURSIVE Rep(_, _)
Rep(s, n) ==
    IF n = 0 THEN ""
    ELSE LET half == Rep(s, n \div 2)
         IN half \o half \o (IF n % 2 = 1 THEN s ELSE "")

\* The length of the rendering of one record with a five-character filename.
ItemLen == Len(write_fileindex_md(<<<<"c", "f0001", "">>>>, repo_name, TheAlgo, "list", FALSE))

\* A sorted index of records f0001, f0002, ... of one blob whose rendering has
\* the given length: the last filename is as much longer as it takes.
LongIndex(length) ==
    LET n == length \div ItemLen
    IN [k \in 1..n |->
          <<"c", "f" \o Pad(k, 4) \o (IF k = n THEN Rep("x", length % ItemLen) ELSE ""),
            "">>]

\* Lengths of renderings: a short one, one at the limit and one over it.
NotesLengths == {ItemLen, NotesLimit, NotesLimit + 1}

\* An upload about to publish the release description (line 337): the release
\* held the index already, with its blob, and an empty description; INCOMING
\* is empty; the run has fetched and rewritten the index and its rendering,
\* sent both, and skipped the blob of every record.
AtReleaseNotes(fileindex) ==
    LET csv == [name |-> CsvName(TheAlgo), content |-> write_fileindex_csv(fileindex)]
        md == [name |-> MdName(TheAlgo),
               content |-> write_fileindex_md(fileindex, repo_name, TheAlgo, "list", FALSE)]
        uploaded == {csv.name, md.name, "c"}
    IN /\ release = [exists |-> TRUE, body |-> ""]
       /\ assets = {[name |-> csv.name, state |-> "uploaded", content |-> csv.content],
                    [name |-> md.name, state |-> "uploaded", content |-> md.content],
                    [name |-> "c", state |-> "uploaded", content |-> "x"]}
       /\ incoming = [exists |-> TRUE, files |-> {}]
       /\ dirs = {TheAlgo}
       /\ hashalgoDir = {csv, md}
       /\ downloadDir = {}
       /\ pc = "u_notes"
       /\ run = [NoRun EXCEPT !.op = "upload", !.hashalgo = TheAlgo,
                              !.fileindex = fileindex, !.uploaded_hashes = uploaded,
                              !.i = Len(fileindex) + 1]
       /\ outcome = "running"
       /\ calls = <<Call("downloadAsset", csv.name, "ok"), Call("listAssets", "", "ok"),
                    Call("createBucket", TheAlgo, "ok"),
                    Call("deleteAsset", csv.name, "ok"), Call("deleteAsset", md.name, "ok"),
                    Call("uploadAsset", csv.name, "ok"), Call("uploadAsset", md.name, "ok")>>
       /\ start = [index |-> fileindex, uploaded |-> uploaded, partial |-> {},
                   dirs |-> {}, cached |-> {}, downloaded |-> {}]
       /\ prev = NoPrev
       /\ faults = 0
       /\ runs = 1

\* Nothing has run yet, on a store without a release; or an upload is about to
\* publish the description of a release with a long index.
UnitInit ==
    /\ \/ /\ release = [exists |-> FALSE, body |-> ""]
          /\ assets = {}
          /\ incoming = [exists |-> FALSE, files |-> {}]
          /\ dirs = {}
          /\ hashalgoDir = {}
          /\ downloadDir = {}
          /\ pc = "idle"
          /\ run = NoRun
          /\ outcome = "none"
          /\ calls = <<>>
          /\ start = NoStart
          /\ prev = NoPrev
          /\ faults = 0
          /\ runs = 0
       \/ \E length \in NotesLengths : AtReleaseNotes(LongIndex(length))
    /\ probe = NoProbe

UnitNext ==
    \/ ReadIndexText
    \/ WriteIndexRead
    \/ WriteRecords
    \/ ReadIndexWritten
    \/ DateToString
    \/ DateFromString
    \/ PublishIndex
    \/ PublishIndexAgain
    \/ UploadReleaseNotes

UnitSpec == UnitInit /\ [][UnitNext]_vars

\* ------------------------------------------------------------------------
\* Properties

\* The records of an index as (checksum, filename) pairs.
Records(fileindex) ==
    {<<Field(fileindex[i], COLUMN_CHECKSUM), Field(fileindex[i], COLUMN_FILENAME)>> :
        i \in 1..Len(fileindex)}

\* The names of the index asset and of its rendering, for the running run.
IndexAssets == {CsvName(run.hashalgo), MdName(run.hashalgo)}

\* The positions in the call log of the uploadAsset calls naming a blob.
BlobUploads ==
    {k \in 1..Len(calls) : calls[k].op = "uploadAsset" /\ calls[k].name \notin IndexAssets}

\* The run has made its fetch of the index and the fetch failed.
IndexFetchFailed ==
    Len(calls) >= 1 /\ calls[1] = Call("downloadAsset", CsvName(run.hashalgo), "failed")

\* The upload run has put its index on the store.
IndexPublished ==
    \E k \in 1..Len(calls) : calls[k] = Call("uploadAsset", CsvName(run.hashalgo), "ok")

\* C1: every (checksum, filename) record of the index published when an upload
\* run starts is in the index that the run publishes, whatever the outcome of
\* the run's fetch of the prior index.
C1_IndexAppendOnly ==
    (run.op = "upload" /\ IndexPublished)
        => Records(start.index) \subseteq Records(PublishedIndex)

\* C2: an upload run never calls uploadAsset for a blob that the store listed
\* as uploaded when the run started.
C2_UploadedNeverReuploaded ==
    run.op = "upload"
        => \A k \in BlobUploads : calls[k].name \notin start.uploaded

\* C3: in an upload run, a blob that the store held as a partial asset when the
\* run started is named by a deleteAsset call before any uploadAsset call of
\* the run names it.
C3_PartialDeletedBeforeUpload ==
    run.op = "upload"
        => \A k \in BlobUploads :
              calls[k].name \in start.partial
                  => \E j \in 1..(k - 1) :
                        calls[j].op = "deleteAsset" /\ calls[j].name = calls[k].name

C5_FailedBlobUploadIsFatal ==
    (run.op = "upload" /\ pc = "done" /\ outcome = "ok" /\ IndexPublished)
        => \A k \in BlobUploads :
              calls[k].result # "ok"
                  => \A i \in 1..Len(PublishedIndex) :
                        Field(PublishedIndex[i], COLUMN_CHECKSUM) # calls[k].name

\* C6: after an upload run killed between the deletion of the index
\* asset and its upload, the next run of either operation ends in the error of
\* the failed fetch, having made no other call.
C6_NextRunFailsOnFetch ==
    (prev.crashed /\ run.hashalgo = TheAlgo /\ Len(calls) >= 1)
        => pc = "done" /\ outcome = "ValueError" /\ Len(calls) = 1

\* Whether no two records of the index have the same checksum and filename.
PairsUnique(fileindex) ==
    \A i, j \in 1..Len(fileindex) :
        (/\ Field(fileindex[i], COLUMN_CHECKSUM) = Field(fileindex[j], COLUMN_CHECKSUM)
         /\ Field(fileindex[i], COLUMN_FILENAME) = Field(fileindex[j], COLUMN_FILENAME))
            => i = j

\* C7: in a download run over an index whose (checksum, filename) pairs are
\* unique, no two records are materialised under the same local filename (here
\* for the indexes that runs without a failure publish).
C7_LocalNamesDistinct ==
    (run.op = "download" /\ faults = 0 /\ PairsUnique(run.fileindex))
        => \A i, j \in 1..Len(run.fileindex_with_local_filename) :
              i # j => Field(run.fileindex_with_local_filename[i], COLUMN_LOCAL_FILENAME)
                       # Field(run.fileindex_with_local_filename[j], COLUMN_LOCAL_FILENAME)

C9_FailedFetchSkipsOneRecord ==
    (/\ run.op = "download"
     /\ pc = "done"
     /\ outcome # "crashed"
     /\ \E k \in 2..Len(calls) : calls[k].result = "failed")
        => /\ outcome = "ok"
           /\ \A i \in 1..Len(run.fileindex) :
                isfile(hashalgoDir, Field(run.fileindex[i], COLUMN_CHECKSUM))
                    => \E j \in 1..Len(run.fileindex_with_local_filename) :
                          /\ SubSeq(run.fileindex_with_local_filename[j], 1, 3)
                               = SubSeq(run.fileindex[i], 1, 3)
                          /\ isfile(downloadDir,
                                    Field(run.fileindex_with_local_filename[j],
                                          COLUMN_LOCAL_FILENAME))

\* C10: a run given an identifier get_hashcmd does not support makes no call to
\* the store and creates no directory, and ends, unless killed, in ValueError.
C10_UnsupportedFailsBeforeIO ==
    (run.op # "none" /\ get_hashcmd(run.hashalgo) = "None")
        => /\ calls = <<>>
           /\ dirs = start.dirs
           /\ (pc = "done" /\ outcome # "crashed") => outcome = "ValueError"

\* Whether a line of an index text is a record of the format: two or three
\* fields, the third a date that date_from_utc_string reads.
WellFormedLine(line) ==
    LET fields == split(rstrip(line), ";")
    IN /\ Len(fields) \in 2..3
       /\ Len(fields) = 3 => date_from_utc_string(fields[3]).ok

Malformed(text) ==
    \E k \in 1..Len(Lines(text)) : ~WellFormedLine(Lines(text)[k])

\* C11: read_fileindex_csv applied to a text with a malformed line (fewer than
\* two or more than three fields, or a third field that is no date) raises an
\* error and returns no record list.
C11_MalformedLineRejected ==
    (probe.op = "read_fileindex_csv" /\ probe.step = 1 /\ Malformed(probe.arg))
        => probe.raised # ""

\* C12: for every index text without a malformed line, lines of only checksum
\* and filename included, write_fileindex_csv of what read_fileindex_csv
\* returned for the text is the text.
C12_ReserialisedByteStable ==
    (probe.op = "write_fileindex_csv" /\ probe.step = 2 /\ ~Malformed(probe.from))
        => probe.result = probe.from

\* The records of an index as (checksum, filename, filedate) triples.
DatedRecords(fileindex) ==
    {SubSeq(fileindex[i], 1, 3) : i \in 1..Len(fileindex)}

\* C13: two runs of upload's merge that end with the same set of (checksum,
\* filename, filedate) records write the same index text, whatever the order
\* in which the incoming files were listed.
C13_IndexTextOfRecordSet ==
    (/\ probe.op = "upload"
     /\ probe.step = 2
     /\ DatedRecords(read_fileindex_csv(probe.result))
          = DatedRecords(read_fileindex_csv(probe.from)))
        => probe.result = probe.from

\* Whether an index is in the order of the sort key.
Sorted(fileindex) ==
    \A i, j \in 1..Len(fileindex) : i < j => ~KeyLess(fileindex[j], fileindex[i])

\* The prior records that carry the name of an incoming file under another
\* checksum than the file's.
Revised(file) ==
    {i \in 1..Len(start.index) :
        /\ Field(start.index[i], COLUMN_FILENAME) = file.name
        /\ Field(start.index[i], COLUMN_CHECKSUM) # hashcmd(file.bytes)}

\* C14: when an incoming file named N with checksum C1 meets a prior record
\* (N, C2) with another checksum, then after an upload in which no call failed
\* the published index has the records (N, C1) and (N, C2), is sorted by
\* filename then date, and the hashalgo directory holds the files C1 and C2.
C14_RevisionKeepsBothRecords ==
    (run.op = "upload" /\ run.hashalgo = TheAlgo /\ pc = "done" /\ outcome = "ok"
     /\ faults = 0)
        => \A file \in incoming.files : \A i \in Revised(file) :
              LET C1 == hashcmd(file.bytes)
                  C2 == Field(start.index[i], COLUMN_CHECKSUM)
              IN /\ {<<C1, file.name>>, <<C2, file.name>>} \subseteq Records(PublishedIndex)
                 /\ Sorted(PublishedIndex)
                 /\ isfile(hashalgoDir, C1)
                 /\ isfile(hashalgoDir, C2)

\* The date string download reads for a record: its date, or the default.
DateStringOf(item) ==
    IF Len(item) > COLUMN_FILEDATE /\ Field(item, COLUMN_FILEDATE) # ""
    THEN Field(item, COLUMN_FILEDATE)
    ELSE DEFAULT_FILE_DATE_UTC_STRING

\* C15: every file that a download run in which no call failed has put or
\* changed in the download directory for a record carries, as its modification time, the
\* date of a record of that local filename (the default date for a record
\* without one), never the time at which the run copied it.
C15_TimestampFromIndex ==
    (run.op = "download" /\ run.hashalgo = TheAlgo /\ faults = 0)
        => \A file \in downloadDir \ start.downloaded :
              file.name # run.hashalgo \o "_local.md"
                  => \E i \in 1..Len(run.fileindex) :
                        LET item == run.fileindex[i]
                            date == date_from_utc_string(DateStringOf(item))
                        IN /\ file.name = local_filename(run.fileindex,
                                                          Field(item, COLUMN_FILENAME),
                                                          Field(item, COLUMN_CHECKSUM))
                           /\ date.ok
                           /\ file.mtime = timestamp(date.date)

\* The positions in the call log of the fetches of a blob.
BlobFetches ==
    {k \in 1..Len(calls) :
        calls[k].op = "downloadAsset" /\ calls[k].name # CsvName(run.hashalgo)}

\* C16: a download run fetches a blob only when the hashalgo directory does
\* not hold it: not a blob that was there when the run started, nor one that
\* the run has fetched already; and a download run that follows a download
\* run which ended with the blob of every record fetched fetches no blob.
C16_FetchOnlyWhenNotCached ==
    run.op = "download"
        => /\ \A k \in BlobFetches :
                /\ calls[k].name \notin start.cached
                /\ \A j \in 1..(k - 1) :
                      calls[j] # Call("downloadAsset", calls[k].name, "ok")
           /\ prev.fetched => BlobFetches = {}

\* C16's case: a download run that follows a download run which fetched every
\* blob has materialised a record from the cache without a fetch.
C16_Witness ==
    /\ run.op = "download"
    /\ prev.fetched
    /\ pc = "done"
    /\ outcome = "ok"
    /\ BlobFetches = {}
    /\ \E j \in 1..Len(run.fileindex_with_local_filename) :
         Field(run.fileindex_with_local_filename[j], COLUMN_CHECKSUM) \in start.cached

\* The upload run has ended with its setDescription call done by the store.
DescriptionPublished ==
    /\ run.op = "upload"
    /\ pc = "done"
    /\ Len(calls) >= 1
    /\ calls[Len(calls)] = Call("setDescription", run.hashalgo, "ok")
    /\ release.exists

\* C17: the description an upload run publishes is the rendering it wrote when
\* the rendering has at most 125000 characters, and the pointer notice, never
\* the rendering, when it has more.
C17_DescriptionWithinLimit ==
    DescriptionPublished
        => LET md == FileOf(hashalgoDir, MdName(run.hashalgo)).content
           IN IF Len(md) <= 125000
              THEN release.body = md
              ELSE release.body = PointerNotice(run.hashalgo) /\ release.body # md

\* C17's case: the description was published for a rendering of more than
\* 125000 characters.
C17_Witness ==
    /\ DescriptionPublished
    /\ Len(FileOf(hashalgoDir, MdName(run.hashalgo)).content) > 125000
    /\ release.body = PointerNotice(run.hashalgo)

\* Every record of the list has a date.
AllDated(fileindex) ==
    \A i \in 1..Len(fileindex) :
        Len(fileindex[i]) = 3 /\ Field(fileindex[i], COLUMN_FILEDATE) # ""

\* No field of the list holds the delimiter or a line break, and every date
\* is one that date_from_utc_string reads.
InFormat(fileindex) ==
    \A i \in 1..Len(fileindex) :
        /\ \A k \in 1..Len(fileindex[i]) :
              /\ Find(fileindex[i][k], ";", 1) > Len(fileindex[i][k])
              /\ Find(fileindex[i][k], "\n", 1) > Len(fileindex[i][k])
        /\ date_from_utc_string(Field(fileindex[i], COLUMN_FILEDATE)).ok

\* C18, as stated: for every list of records that all have a date,
\* read_fileindex_csv of the text write_fileindex_csv wrote is the list.
C18_RoundTrip ==
    (probe.op = "read_fileindex_csv" /\ probe.step = 2 /\ AllDated(probe.from))
        => probe.result = probe.from

\* C18, amended: for every list of records that all have a date and whose
\* fields hold neither the delimiter nor a line break, read_fileindex_csv of
\* the text write_fileindex_csv wrote is the list.
C18_RoundTripInFormat ==
    (/\ probe.op = "read_fileindex_csv"
     /\ probe.step = 2
     /\ AllDated(probe.from)
     /\ InFormat(probe.from))
        => probe.result = probe.from

\* C18's case: a list of two dated records, one with a blank in its filename,
\* was written and read back.
C18_Witness ==
    /\ probe.op = "read_fileindex_csv"
    /\ probe.step = 2
    /\ Len(probe.from) = 2
    /\ AllDated(probe.from)
    /\ InFormat(probe.from)
    /\ \E i \in 1..2 : Field(probe.from[i], COLUMN_FILENAME) = "B c"
    /\ probe.result = probe.from

\* The prior records, with a date, of the checksum and filename of an incoming
\* file.
Indexed(file) ==
    {i \in 1..Len(start.index) :
        /\ Field(start.index[i], COLUMN_CHECKSUM) = hashcmd(file.bytes)
        /\ Field(start.index[i], COLUMN_FILENAME) = file.name
        /\ Field(start.index[i], COLUMN_FILEDATE) # ""}

\* C19: when the index published at the start of an upload run has no two
\* records of the same checksum and filename, the index the run publishes has
\* none either, and for an incoming file whose checksum and filename are
\* indexed already, with a date, it holds the prior record, date unchanged,
\* and no other record of that checksum and filename.
C19_PairsStayUnique ==
    (run.op = "upload" /\ IndexPublished /\ PairsUnique(start.index))
        => /\ PairsUnique(PublishedIndex)
           /\ \A file \in incoming.files : \A i \in Indexed(file) :
                \A j \in 1..Len(PublishedIndex) :
                   (/\ Field(PublishedIndex[j], COLUMN_CHECKSUM) = hashcmd(file.bytes)
                    /\ Field(PublishedIndex[j], COLUMN_FILENAME) = file.name)
                       => PublishedIndex[j] = start.index[i]

\* C20: for every file modification time, one of a whole second included,
\* date_from_utc_string reads the string that date_to_utc_string wrote for it
\* without an error and returns the same time.
C20_DateRoundTrip ==
    (probe.op = "date_from_utc_string" /\ probe.step = 2)
        => /\ probe.raised = ""
           /\ probe.result = probe.from

====
